---- MODULE Spec2Model ----
(***************************************************************************)
(* Model of the package registry of oi-pkg-checker-core:                   *)
(*   packages/package.rs      Package, PackageVersion                      *)
(*   packages/components.rs   Components (the registry) and its operations *)
(* A Package is a record, the registry's Vec<Rc<RefCell<Package>>> is a    *)
(* sequence of such records (hash_packages indexes the same cells by       *)
(* package name), the diagnostic sink is a sequence of problem records.    *)
(* A component is a record in the registry's component Vec; an Rc or Weak  *)
(* handle to a component or a package is its position in its Vec.          *)
(* A Rust panic (unwrap on None) aborts the run: panicked becomes TRUE and *)
(* no operation is enabled afterwards.                                     *)
(***************************************************************************)
EXTENDS Naturals, Sequences, FiniteSets

VARIABLES
    packages,   \* Components.packages (and hash_packages): sequence of Package
    problems,   \* Components.problems: the diagnostic sink
    staged,     \* the Package value the loader is building, or NoPackage
    panicked,   \* TRUE once an operation has panicked
    last,       \* the operation executed last, with its arguments
    mirror,     \* a second registry, fed the same packages in the opposite order
    components  \* Components.components: sequence of Component

vars == <<packages, problems, staged, panicked, last, mirror, components>>

----------------------------------------------------------------------------
(* Bounds of the model *)

\* versions are 1..MaxVersion; 0 stands for "the FMRI carries no version"
MaxVersion == 2
\* add_package is not called once the sink holds MaxProblems diagnostics
MaxProblems == 1
\* runtime dependency entries recorded in the registry before distribution
MaxEntries == 2
\* components, component dependency edges and diagnostics, taken together,
\* up to which new_component and add_repo_dependencies are called
MaxGraph == 3

----------------------------------------------------------------------------
(* Identity types (crate fmri): FMRI = name + optional version + optional  *)
(* publisher, Version = totally ordered                                    *)

NoVersion == 0
NoPublisher == "-"
NoComponent == 0
NoCulprit == "None"
NoPackage == [none |-> TRUE]
NoMirror == [none |-> TRUE]

Versions == 1..MaxVersion
Publishers == {"X", "Y"}

FMRI(name, version, publisher) ==
    [name |-> name, version |-> version, publisher |-> publisher]

\* std::cmp::Ordering of a.cmp(&b) on versions
Cmp(a, b) == IF a < b THEN "Less" ELSE IF a = b THEN "Equal" ELSE "Greater"

----------------------------------------------------------------------------
(* packages/package.rs *)

PackageVersionNew(version) ==
    [version |-> version, runtime |-> <<>>, obsolete |-> FALSE, renamed |-> FALSE]

PackageNew(fmri) ==
    [fmri |-> fmri,
     versions |-> <<>>,
     component |-> NoComponent,
     obsolete |-> FALSE,
     renamed |-> FALSE,
     runtime_dependents |-> <<>>,
     build_dependents |-> <<>>,
     test_dependents |-> <<>>,
     sys_build_dependents |-> <<>>,
     sys_test_dependents |-> <<>>]

\* Package::add_package_version: [package, ok]; ok = FALSE is the Err result
add_package_version(package, package_version) ==
    IF \E i \in 1..Len(package.versions) : package.versions[i] = package_version
    THEN [package |-> package, ok |-> TRUE]
    ELSE IF \E i \in 1..Len(package.versions) :
                Cmp(package.versions[i].version, package_version.version) = "Equal"
    THEN [package |-> package, ok |-> TRUE]
    ELSE IF package_version.obsolete /\ package_version.renamed
    THEN [package |-> package, ok |-> FALSE]
    ELSE [package |-> [package EXCEPT !.obsolete = package_version.obsolete,
                                      !.renamed = package_version.renamed,
                                      !.versions = Append(@, package_version)],
          ok |-> TRUE]

----------------------------------------------------------------------------
(* slice::sort_by on the version key: a stable sort *)

RECURSIVE InsertAsc(_, _)
InsertAsc(sorted, v) ==
    IF sorted = <<>> THEN <<v>>
    ELSE IF Cmp(Head(sorted).version, v.version) = "Greater"
         THEN <<v>> \o sorted
         ELSE <<Head(sorted)>> \o InsertAsc(Tail(sorted), v)

RECURSIVE SortAscending(_)
SortAscending(vs) ==
    IF vs = <<>> THEN <<>>
    ELSE InsertAsc(SortAscending(SubSeq(vs, 1, Len(vs) - 1)), vs[Len(vs)])

----------------------------------------------------------------------------
(* problems.rs is not part of the sources: Problems is the append-only     *)
(* diagnostic sink of the specification                                    *)

add_problem(sink, problem) == Append(sink, problem)

SamePackageHasTwoPublishers(fmri, p_a, p_b, culprit) ==
    [kind |-> "SamePackageHasTwoPublishers",
     fmri |-> fmri, a |-> p_a, b |-> p_b, culprit |-> culprit]

----------------------------------------------------------------------------
(* packages/components.rs: Components::add_package *)

\* index of the package of that name in the registry, 0 for Err
get_package_by_fmri(pk, fmri) ==
    IF \E i \in 1..Len(pk) : pk[i].fmri.name = fmri.name
    THEN CHOOSE i \in 1..Len(pk) : pk[i].fmri.name = fmri.name
    ELSE 0

\* the result of one match arm: the canonical entry, the sink, and whether
\* get_publisher().unwrap() panicked
Outcome(entry, sink, panic) == [entry |-> entry, problems |-> sink, panicked |-> panic]

\* the three conflict paths: both publishers are unwrapped, then the problem
\* is appended and the canonical entry stays
ReportConflict(existing, package, sink, culprit) ==
    IF existing.fmri.publisher = NoPublisher \/ package.fmri.publisher = NoPublisher
    THEN Outcome(existing, sink, TRUE)
    ELSE Outcome(existing,
                 add_problem(sink, SamePackageHasTwoPublishers(
                     package.fmri, existing.fmri.publisher,
                     package.fmri.publisher, culprit)),
                 FALSE)

\* a variant of the (true, false) arm that never lets the live package in
ArmObsoleteLive_KeepsOld(existing, package, o, n, sink) ==
    IF Cmp(o.version, n.version) \in {"Equal", "Less"}
    THEN Outcome(existing, sink, FALSE)
    ELSE ReportConflict(existing, package, sink, NoCulprit)

\* (true, false)
ArmObsoleteLive(existing, package, o, n, sink) ==
    IF Cmp(o.version, n.version) \in {"Equal", "Less"}
    THEN Outcome(package, sink, FALSE)
    ELSE ReportConflict(existing, package, sink, NoCulprit)

\* (false, true)
ArmLiveObsolete(existing, package, o, n, sink) ==
    IF Cmp(o.version, n.version) \in {"Equal", "Less"}
    THEN ReportConflict(existing, package, sink, NoCulprit)
    ELSE Outcome(existing, sink, FALSE)

\* (false, false)
Culprit(existing, package, o, n) ==
    IF Cmp(o.version, n.version) = "Equal"
    THEN existing.fmri.publisher
    ELSE package.fmri.publisher

ArmLiveLive(existing, package, o, n, sink) ==
    ReportConflict(existing, package, sink, Culprit(existing, package, o, n))

\* a variant of the (true, true) arm that reports the pair like the other arms
ArmObsoleteObsolete_Reports(existing, package, o, n, sink) ==
    ReportConflict(existing, package, sink, NoCulprit)

\* (true, true)
ArmObsoleteObsolete(existing, package, o, n, sink) ==
    Outcome(existing, sink, FALSE)

\* Components::add_package: the registry, the sink and the panic flag after
\* the call
add_package(pk, sink, pkg) ==
    LET i == get_package_by_fmri(pk, pkg.fmri) IN
    IF i = 0
    THEN [packages |-> Append(pk, pkg), problems |-> sink, panicked |-> FALSE]
    ELSE
      LET existing == pk[i]
          existing_package_versions == SortAscending(existing.versions)
          package == [pkg EXCEPT !.versions = SortAscending(pkg.versions)]
      IN
      IF existing_package_versions = <<>> \/ package.versions = <<>>
      THEN [packages |-> pk, problems |-> sink, panicked |-> TRUE]
      ELSE
        LET o == Head(existing_package_versions)
            n == Head(package.versions)
            r == CASE o.obsolete /\ ~n.obsolete ->
                        ArmObsoleteLive(existing, package, o, n, sink)
                   [] ~o.obsolete /\ n.obsolete ->
                        ArmLiveObsolete(existing, package, o, n, sink)
                   [] ~o.obsolete /\ ~n.obsolete ->
                        ArmLiveLive(existing, package, o, n, sink)
                   [] o.obsolete /\ n.obsolete ->
                        ArmObsoleteObsolete(existing, package, o, n, sink)
        IN [packages |-> [pk EXCEPT ![i] = r.entry],
            problems |-> r.problems,
            panicked |-> r.panicked]

----------------------------------------------------------------------------
(* packages/components.rs: Components::set_package_obsolete and            *)
(* Components::set_package_renamed                                         *)

\* [packages, ok]; ok = FALSE is the Err result (no package of that name)
set_package_obsolete(pk, fmri) ==
    LET i == get_package_by_fmri(pk, fmri) IN
    IF i = 0 THEN [packages |-> pk, ok |-> FALSE]
    ELSE IF fmri.version = NoVersion
    THEN [packages |-> [pk EXCEPT ![i].obsolete = TRUE], ok |-> TRUE]
    ELSE [packages |->
            [pk EXCEPT ![i].versions =
                [k \in 1..Len(@) |->
                    IF @[k].version = fmri.version
                    THEN [@[k] EXCEPT !.obsolete = TRUE]
                    ELSE @[k]]],
          ok |-> TRUE]

set_package_renamed(pk, fmri) ==
    LET i == get_package_by_fmri(pk, fmri) IN
    IF i = 0 THEN [packages |-> pk, ok |-> FALSE]
    ELSE IF fmri.version = NoVersion
    THEN [packages |-> [pk EXCEPT ![i].renamed = TRUE], ok |-> TRUE]
    ELSE [packages |->
            [pk EXCEPT ![i].versions =
                [k \in 1..Len(@) |->
                    IF @[k].version = fmri.version
                    THEN [@[k] EXCEPT !.renamed = TRUE]
                    ELSE @[k]]],
          ok |-> TRUE]

----------------------------------------------------------------------------
(* packages/components.rs: Components::remove_old_versions *)

\* sort_by(|a, b| b.version.cmp(&a.version)): stable, highest version first
RECURSIVE InsertDesc(_, _)
InsertDesc(sorted, v) ==
    IF sorted = <<>> THEN <<v>>
    ELSE IF Cmp(v.version, Head(sorted).version) = "Greater"
         THEN <<v>> \o sorted
         ELSE <<Head(sorted)>> \o InsertDesc(Tail(sorted), v)

\* a variant that sorts the lowest version first
SortDescending_Ascending(vs) == SortAscending(vs)

RECURSIVE SortDescending(_)
SortDescending(vs) ==
    IF vs = <<>> THEN <<>>
    ELSE InsertDesc(SortDescending(SubSeq(vs, 1, Len(vs) - 1)), vs[Len(vs)])

\* the loop over the sorted versions: the first one that is neither obsolete
\* nor renamed replaces new_ver
RECURSIVE FirstUnflagged(_, _)
FirstUnflagged(sorted, new_ver) ==
    IF sorted = <<>> THEN new_ver
    ELSE IF ~Head(sorted).obsolete /\ ~Head(sorted).renamed
         THEN Head(sorted)
         ELSE FirstUnflagged(Tail(sorted), new_ver)

\* Package::change_versions
change_versions(package, vers) == [package EXCEPT !.versions = vers]

\* a variant of the loop body that keeps every version that is neither
\* obsolete nor renamed
PruneVersions_KeepsUnflagged(package) ==
    LET sorted == SortDescending(package.versions)
        kept == SelectSeq(sorted, LAMBDA v : ~v.obsolete /\ ~v.renamed)
    IN change_versions(package, IF kept = <<>> THEN <<Head(sorted)>> ELSE kept)

\* the loop body for one package with at least one version
PruneVersions(package) ==
    LET sorted == SortDescending(package.versions)
        new_ver == FirstUnflagged(sorted, Head(sorted))
    IN change_versions(package, <<new_ver>>)

\* the loop from package i on: versions.first().unwrap() panics on a package
\* without versions and leaves the packages before it pruned
RECURSIVE remove_old_versions_from(_, _)
remove_old_versions_from(pk, i) ==
    IF i > Len(pk) THEN [packages |-> pk, panicked |-> FALSE]
    ELSE IF pk[i].versions = <<>> THEN [packages |-> pk, panicked |-> TRUE]
    ELSE remove_old_versions_from([pk EXCEPT ![i] = PruneVersions(pk[i])], i + 1)

remove_old_versions(pk) == remove_old_versions_from(pk, 1)

----------------------------------------------------------------------------
(* Inputs of the ingestion phase *)

MergeFmris ==
    {FMRI("A", NoVersion, p) : p \in Publishers \cup {NoPublisher}}

\* PackageVersion::new followed by set_obsolete
MergeVersionInputs ==
    {[PackageVersionNew(v) EXCEPT !.obsolete = ob] : v \in Versions, ob \in BOOLEAN}

----------------------------------------------------------------------------
(* Actions *)

\* the pipeline: ingestion, then component and dependency attachment, then
\* one reverse distribution, then one problem check; no phase re-enters an
\* earlier one
Distributed == last.op = "distribute_reverse_runtime_dependencies"
Checked == last.op = "check_problems"
Attaching == ~Distributed /\ ~Checked

Init ==
    /\ packages = <<>>
    /\ problems = <<>>
    /\ staged = NoPackage
    /\ panicked = FALSE
    /\ last = [op |-> "init"]
    /\ mirror = NoMirror
    /\ components = <<>>

\* the loader creates an empty package: Package::new
NewPackage(fmris) ==
    /\ ~panicked
    /\ staged = NoPackage
    /\ \E fmri \in fmris :
         /\ staged' = PackageNew(fmri)
         /\ last' = [op |-> "Package::new"]
    /\ UNCHANGED <<packages, problems, panicked, mirror, components>>

\* the loader adds a version to the package it is building
AddPackageVersion(inputs) ==
    /\ ~panicked
    /\ staged # NoPackage
    /\ \E package_version \in inputs :
         LET r == add_package_version(staged, package_version) IN
         /\ staged' = r.package
         /\ last' = [op |-> "add_package_version", ok |-> r.ok]
    /\ UNCHANGED <<packages, problems, panicked, mirror, components>>

\* the loader hands the package to the registry: Components::add_package
AddPackage ==
    /\ ~panicked
    /\ staged # NoPackage
    /\ Len(problems) < MaxProblems
    /\ LET r == add_package(packages, problems, staged) IN
         /\ packages' = r.packages
         /\ problems' = r.problems
         /\ panicked' = r.panicked
    /\ staged' = NoPackage
    /\ last' = [op |-> "add_package", arg |-> staged]
    /\ UNCHANGED <<mirror, components>>

Next ==
    \/ NewPackage(MergeFmris)
    \/ AddPackageVersion(MergeVersionInputs)
    \/ AddPackage

Spec == Init /\ [][Next]_vars

----------------------------------------------------------------------------
(* Two packages of one name ingested in both orders: the registry ingests  *)
(* first then second, the mirror registry second then first                *)

\* Package::new followed by add_package_version for each version of vs
RECURSIVE BuildPackage(_, _)
BuildPackage(fmri, vs) ==
    IF vs = <<>> THEN PackageNew(fmri)
    ELSE add_package_version(BuildPackage(fmri, SubSeq(vs, 1, Len(vs) - 1)),
                             vs[Len(vs)]).package

IncomingPackages ==
    {BuildPackage(f, vs) :
        f \in MergeFmris,
        vs \in UNION {[1..k -> MergeVersionInputs] : k \in 1..MaxVersion}}

InitCommute ==
    /\ packages = <<>>
    /\ problems = <<>>
    /\ staged = NoPackage
    /\ panicked = FALSE
    /\ last = [op |-> "init"]
    /\ components = <<>>
    /\ \E a \in IncomingPackages, b \in IncomingPackages :
         mirror = [first |-> a, second |-> b,
                   packages |-> <<>>, problems |-> <<>>, panicked |-> FALSE]

\* one add_package call in each registry
IngestBoth(forward, backward) ==
    LET r == add_package(packages, problems, forward)
        m == add_package(mirror.packages, mirror.problems, backward)
    IN /\ packages' = r.packages
       /\ problems' = r.problems
       /\ panicked' = r.panicked
       /\ mirror' = [mirror EXCEPT !.packages = m.packages,
                                   !.problems = m.problems,
                                   !.panicked = m.panicked]
       /\ UNCHANGED <<staged, components>>

IngestFirst ==
    /\ last.op = "init"
    /\ IngestBoth(mirror.first, mirror.second)
    /\ last' = [op |-> "add_package", call |-> 1]

IngestSecond ==
    /\ last.op = "add_package"
    /\ last.call = 1
    /\ ~panicked
    /\ ~mirror.panicked
    /\ IngestBoth(mirror.second, mirror.first)
    /\ last' = [op |-> "add_package", call |-> 2]

NextCommute == IngestFirst \/ IngestSecond

SpecCommute == InitCommute /\ [][NextCommute]_vars

----------------------------------------------------------------------------
(* The flag setters of the registry, called with a versioned FMRI *)

FlagFmris == {FMRI("A", NoVersion, "X")}

\* PackageVersion::new followed by set_obsolete and set_renamed
FlagVersionInputs ==
    {[PackageVersionNew(v) EXCEPT !.obsolete = ob, !.renamed = rn] :
        v \in Versions, ob \in BOOLEAN, rn \in BOOLEAN}

VersionedFmris == {FMRI("A", v, "X") : v \in Versions}

SetPackageObsolete(fmris) ==
    /\ ~panicked
    /\ Attaching
    /\ \E fmri \in fmris :
         LET r == set_package_obsolete(packages, fmri) IN
         /\ packages' = r.packages
         /\ last' = [op |-> "set_package_obsolete", arg |-> fmri, ok |-> r.ok]
    /\ UNCHANGED <<problems, staged, panicked, mirror, components>>

SetPackageRenamed(fmris) ==
    /\ ~panicked
    /\ Attaching
    /\ \E fmri \in fmris :
         LET r == set_package_renamed(packages, fmri) IN
         /\ packages' = r.packages
         /\ last' = [op |-> "set_package_renamed", arg |-> fmri, ok |-> r.ok]
    /\ UNCHANGED <<problems, staged, panicked, mirror, components>>

NextFlags ==
    \/ NewPackage(FlagFmris)
    \/ AddPackageVersion(FlagVersionInputs)
    \/ AddPackage
    \/ SetPackageObsolete(VersionedFmris)
    \/ SetPackageRenamed(VersionedFmris)

SpecFlags == Init /\ [][NextFlags]_vars

----------------------------------------------------------------------------
(* Version pruning after ingestion *)

Require(f) == [kind |-> "Require", f |-> f]

\* the versions the loader gives a package: A gets versions with any flag and
\* a runtime dependency of their own, B one plain version at most
PruneVersionInputs ==
    {[version |-> v,
      runtime |-> <<Require(FMRI("B", v, NoPublisher))>>,
      obsolete |-> fl[1],
      renamed |-> fl[2]] :
        v \in Versions, fl \in {<<FALSE, FALSE>>, <<TRUE, FALSE>>, <<FALSE, TRUE>>}}

\* the packages the loader builds: Package::new, then add_package_version for
\* each version
PruneIncoming ==
    {BuildPackage(FMRI("A", NoVersion, "X"), vs) :
        vs \in UNION {[1..k -> PruneVersionInputs] : k \in 0..MaxVersion}}
    \cup {BuildPackage(FMRI("B", NoVersion, "X"), vs) :
        vs \in {<<>>, <<PackageVersionNew(1)>>}}

\* the loader builds a package and hands it to the registry
IngestPackage(inputs) ==
    /\ ~panicked
    /\ Attaching
    /\ Len(problems) < MaxProblems
    /\ \E package \in inputs :
         LET r == add_package(packages, problems, package) IN
         /\ packages' = r.packages
         /\ problems' = r.problems
         /\ panicked' = r.panicked
    /\ last' = [op |-> "add_package"]
    /\ UNCHANGED <<staged, mirror, components>>

RemoveOldVersions ==
    /\ ~panicked
    /\ Attaching
    /\ LET r == remove_old_versions(packages) IN
         /\ packages' = r.packages
         /\ panicked' = r.panicked
    /\ last' = [op |-> "remove_old_versions", before |-> packages]
    /\ UNCHANGED <<problems, staged, mirror, components>>

NextPrune ==
    \/ IngestPackage(PruneIncoming)
    \/ RemoveOldVersions

SpecPrune == Init /\ [][NextPrune]_vars

----------------------------------------------------------------------------
(* packages/components.rs: Components::distribute_reverse_runtime_dependencies *)

\* DependTypes: the runtime dependency shapes of a package version
Optional(f) == [kind |-> "Optional", f |-> f]
Incorporate(f) == [kind |-> "Incorporate", f |-> f]
RequireAny(l) == [kind |-> "RequireAny", l |-> l]
Conditional(f, p) == [kind |-> "Conditional", f |-> f, p |-> p]
Group(f) == [kind |-> "Group", f |-> f]

DependKinds ==
    {"Require", "Optional", "Incorporate", "RequireAny", "Conditional", "Group"}

\* RevDependType: kind is Require, Optional, Incorporate, RequireAny,
\* ConditionalFmri, ConditionalPredicate or Group; f is the source package
Rev(kind, f) == [kind |-> kind, f |-> f]

\* FMRI::parse_raw("none")
NoneFmri == FMRI("none", NoVersion, NoPublisher)

NonExistingRequired(d_type, dependency_type, fmri, component_name) ==
    [kind |-> "NonExistingRequired", d_type |-> d_type,
     dependency_type |-> dependency_type, fmri |-> fmri,
     component |-> component_name]

NonExistingRequiredByRenamed(d_type, dependency_type, fmri) ==
    [kind |-> "NonExistingRequiredByRenamed", d_type |-> d_type,
     dependency_type |-> dependency_type, fmri |-> fmri]

\* the (package, version, entry) positions of the runtime dependencies
Entries(pk) ==
    UNION {UNION {{<<i, k, j>> : j \in 1..Len(pk[i].versions[k].runtime)} :
                    k \in 1..Len(pk[i].versions)} :
             i \in 1..Len(pk)}

EntryAt(pk, e) == pk[e[1]].versions[e[2]].runtime[e[3]]

\* a variant of the match that gives a RequireAny candidate a RequireAny edge
ReverseEdges_RequireAnyShape(d, source) ==
    IF d.kind = "RequireAny"
    THEN {<<d.l[c], Rev("RequireAny", source)>> : c \in 1..Len(d.l)}
    ELSE IF d.kind = "Conditional"
    THEN {<<d.f, Rev("ConditionalFmri", source)>>,
          <<d.p, Rev("ConditionalPredicate", source)>>}
    ELSE {<<d.f, Rev(d.kind, source)>>}

\* the match on one dependency: the (target FMRI, reverse edge) pairs that
\* add() is called with
ReverseEdges(d, source) ==
    CASE d.kind = "Require" -> {<<d.f, Rev("Require", source)>>}
      [] d.kind = "Optional" -> {<<d.f, Rev("Optional", source)>>}
      [] d.kind = "Incorporate" -> {<<d.f, Rev("Incorporate", source)>>}
      [] d.kind = "RequireAny" ->
            {<<d.l[c], Rev("Require", source)>> : c \in 1..Len(d.l)}
      [] d.kind = "Conditional" ->
            {<<d.f, Rev("ConditionalFmri", source)>>,
             <<d.p, Rev("ConditionalPredicate", source)>>}
      [] d.kind = "Group" -> {<<d.f, Rev("Group", source)>>}

\* the arm  _ => unimplemented!()  is taken
Unimplemented(pk) == \E e \in Entries(pk) : EntryAt(pk, e).kind \notin DependKinds

\* a variant of the first loop in which an edge names the FMRI the dependency
\* was written with and not the package the version belongs to
rev_run_deps_NamesTarget(pk) ==
    UNION {ReverseEdges(EntryAt(pk, e),
                        IF EntryAt(pk, e).kind = "RequireAny"
                        THEN EntryAt(pk, e).l[1] ELSE EntryAt(pk, e).f) :
             e \in Entries(pk)}

\* the first loop: rev_run_deps, a HashMap<FMRI, HashSet<RevDependType>>, as
\* the set of its (key, element) pairs; add() inserts into the set of the key
rev_run_deps(pk) ==
    UNION {ReverseEdges(EntryAt(pk, e), pk[e[1]].fmri) : e \in Entries(pk)}

RECURSIVE Orders(_)
Orders(S) ==
    IF S = {} THEN {<<>>}
    ELSE UNION {{<<x>> \o rest : rest \in Orders(S \ {x})} : x \in S}

\* the orders in which the second loop can meet the map: the keys in any
\* order, and under each key its set collected into a Vec in any order
RECURSIVE IterationOrders(_)
IterationOrders(map) ==
    IF map = {} THEN {<<>>}
    ELSE UNION {{<<[fmri |-> key, rev_deps |-> rev_deps]>> \o rest :
                    rev_deps \in Orders({pr[2] : pr \in {q \in map : q[1] = key}}),
                    rest \in IterationOrders({q \in map : q[1] # key})} :
                  key \in {pr[1] : pr \in map}}

\* the dependency shape rebuilt from a reverse edge of an unresolved target
RebuildDependType(rev_dep, fmri) ==
    CASE rev_dep.kind = "Require" -> Require(fmri)
      [] rev_dep.kind = "Optional" -> Optional(fmri)
      [] rev_dep.kind = "Incorporate" -> Incorporate(fmri)
      [] rev_dep.kind = "RequireAny" -> RequireAny(<<fmri>>)
      [] rev_dep.kind = "ConditionalFmri" -> Conditional(fmri, NoneFmri)
      [] rev_dep.kind = "ConditionalPredicate" -> Conditional(NoneFmri, fmri)
      [] rev_dep.kind = "Group" -> Group(fmri)

\* a variant of the Err arm that does not look at the source's renamed flag
RECURSIVE ReportMissing_IgnoresRenamed(_, _, _, _, _)
ReportMissing_IgnoresRenamed(pk, sink, fmri, rev_deps, n) ==
    IF n > Len(rev_deps) THEN [problems |-> sink, panicked |-> FALSE]
    ELSE LET f == rev_deps[n].f
             d_type == RebuildDependType(rev_deps[n], fmri)
             i == get_package_by_fmri(pk, f)
         IN IF i = 0 THEN [problems |-> sink, panicked |-> TRUE]
            ELSE ReportMissing_IgnoresRenamed(
                   pk,
                   add_problem(sink, NonExistingRequired(d_type, "Runtime", f, "")),
                   fmri, rev_deps, n + 1)

\* the Err arm: one diagnostic for each reverse edge of the unresolved target
RECURSIVE ReportMissing(_, _, _, _, _)
ReportMissing(pk, sink, fmri, rev_deps, n) ==
    IF n > Len(rev_deps) THEN [problems |-> sink, panicked |-> FALSE]
    ELSE LET f == rev_deps[n].f
             d_type == RebuildDependType(rev_deps[n], fmri)
             i == get_package_by_fmri(pk, f)
         IN IF i = 0 THEN [problems |-> sink, panicked |-> TRUE]
            ELSE ReportMissing(
                   pk,
                   add_problem(sink,
                       IF pk[i].renamed
                       THEN NonExistingRequiredByRenamed(d_type, "Runtime", f)
                       ELSE NonExistingRequired(d_type, "Runtime", f, "")),
                   fmri, rev_deps, n + 1)

\* the second loop from the n-th key of the iteration order
RECURSIVE DistributeFrom(_, _, _, _)
DistributeFrom(pk, sink, order, n) ==
    IF n > Len(order) THEN [packages |-> pk, problems |-> sink, panicked |-> FALSE]
    ELSE LET fmri == order[n].fmri
             rev_deps == order[n].rev_deps
             i == get_package_by_fmri(pk, fmri)
         IN IF i # 0
            THEN DistributeFrom(
                   [pk EXCEPT ![i].runtime_dependents = @ \o rev_deps],
                   sink, order, n + 1)
            ELSE LET r == ReportMissing(pk, sink, fmri, rev_deps, 1) IN
                 IF r.panicked
                 THEN [packages |-> pk, problems |-> r.problems, panicked |-> TRUE]
                 ELSE DistributeFrom(pk, r.problems, order, n + 1)

distribute_reverse_runtime_dependencies(pk, sink, order) ==
    DistributeFrom(pk, sink, order, 1)

\* the runtime dependencies the loader records: on B with or without a
\* version, and on C, a name the registry never holds
DistTargets ==
    [B |-> FMRI("B", NoVersion, NoPublisher),
     B1 |-> FMRI("B", 1, NoPublisher),
     C |-> FMRI("C", NoVersion, NoPublisher)]

DistDependencies ==
    {Require(DistTargets.B), Require(DistTargets.B1), Optional(DistTargets.B),
     Incorporate(DistTargets.C), Group(DistTargets.B),
     RequireAny(<<DistTargets.B, DistTargets.C>>),
     RequireAny(<<DistTargets.B1, DistTargets.B>>),
     Conditional(DistTargets.B, DistTargets.C)}

\* the packages the loader builds: A with two versions, or with one renamed
\* version, and B with one version
DistIncoming ==
    {BuildPackage(FMRI("A", NoVersion, "X"),
                  <<PackageVersionNew(1), PackageVersionNew(2)>>),
     BuildPackage(FMRI("A", NoVersion, "X"),
                  <<[PackageVersionNew(1) EXCEPT !.renamed = TRUE]>>),
     BuildPackage(FMRI("B", NoVersion, "X"), <<PackageVersionNew(1)>>)}

\* the loader ingests each name once
IngestNewPackage(inputs) ==
    /\ ~panicked
    /\ Attaching
    /\ components = <<>>
    /\ \E package \in inputs :
         /\ get_package_by_fmri(packages, package.fmri) = 0
         /\ LET r == add_package(packages, problems, package) IN
              /\ packages' = r.packages
              /\ problems' = r.problems
              /\ panicked' = r.panicked
    /\ last' = [op |-> "add_package"]
    /\ UNCHANGED <<staged, mirror, components>>

\* PackageVersion::add_runtime_dependencies on a stored version
AddRuntimeDependencies(inputs) ==
    /\ ~panicked
    /\ ~Distributed
    /\ Cardinality(Entries(packages)) < MaxEntries
    /\ \E i \in 1..Len(packages) :
         \E k \in 1..Len(packages[i].versions) :
           \E d \in inputs :
             packages' = [packages EXCEPT ![i].versions[k].runtime = Append(@, d)]
    /\ last' = [op |-> "add_runtime_dependencies"]
    /\ UNCHANGED <<problems, staged, panicked, mirror, components>>

Distribute ==
    /\ ~panicked
    /\ Attaching
    /\ IF Unimplemented(packages)
       THEN /\ panicked' = TRUE
            /\ UNCHANGED <<packages, problems>>
       ELSE \E order \in IterationOrders(rev_run_deps(packages)) :
              LET r == distribute_reverse_runtime_dependencies(packages, problems, order) IN
              /\ packages' = r.packages
              /\ problems' = r.problems
              /\ panicked' = r.panicked
    /\ last' = [op |-> "distribute_reverse_runtime_dependencies",
                before |-> packages, sink |-> problems]
    /\ UNCHANGED <<staged, mirror, components>>

NextDist ==
    \/ IngestNewPackage(DistIncoming)
    \/ AddRuntimeDependencies(DistDependencies)
    \/ Distribute

SpecDist == Init /\ [][NextDist]_vars

----------------------------------------------------------------------------
(* State functions used by the properties *)

Range(s) == {s[i] : i \in 1..Len(s)}

\* the stored version with the least version number (versions is not empty)
Lowest(package) ==
    CHOOSE v \in Range(package.versions) :
        \A w \in Range(package.versions) : v.version <= w.version

Known(pk, name) == \E i \in 1..Len(pk) : pk[i].fmri.name = name

Entry(pk, name) == pk[CHOOSE i \in 1..Len(pk) : pk[i].fmri.name = name]

\* a Package value with its versions taken as a set
AsValue(package) == [package EXCEPT !.versions = Range(package.versions)]

\* a step of add_package that meets an entry of the same name, both with versions
MergeStep ==
    /\ staged # NoPackage
    /\ staged' = NoPackage
    /\ last'.op = "add_package"
    /\ Known(packages, staged.fmri.name)
    /\ staged.versions # <<>>
    /\ Entry(packages, staged.fmri.name).versions # <<>>

Existing == Entry(packages, staged.fmri.name)

\* the step appends exactly the two-publisher problem with this culprit
AppendsConflict(culprit) ==
    problems' = Append(problems,
                       SamePackageHasTwoPublishers(staged.fmri, Existing.fmri.publisher,
                                                   staged.fmri.publisher, culprit))

----------------------------------------------------------------------------
(* Properties of add_package *)

\* C1: whenever add_package meets a live (lowest version not obsolete) entry
\* with a live incoming package, it appends exactly one
\* SamePackageHasTwoPublishers problem naming the existing and the incoming
\* publisher, and the canonical entry stays as it was.
C1_BothLiveAlwaysConflict ==
    [][(MergeStep /\ ~Lowest(Existing).obsolete /\ ~Lowest(staged).obsolete)
        => /\ \E c \in Publishers \cup {NoCulprit} : AppendsConflict(c)
           /\ packages' = packages
           /\ ~panicked']_vars

\* C2: in the both-live conflict the culprit is the publisher of the side
\* with the later version, the existing side on equal versions.
C2_CulpritIsLaterSide ==
    [][(/\ MergeStep
        /\ ~Lowest(Existing).obsolete
        /\ ~Lowest(staged).obsolete
        /\ Len(problems') = Len(problems) + 1)
        => problems'[Len(problems')].culprit =
             IF Lowest(Existing).version >= Lowest(staged).version
             THEN Existing.fmri.publisher
             ELSE staged.fmri.publisher]_vars

\* C3: the merge table when exactly one side is obsolete in its lowest
\* version: replace silently, conflict without culprit (twice), or ignore.
C3_MergeTable ==
    [][MergeStep =>
        LET o == Lowest(Existing)
            n == Lowest(staged)
            i == CHOOSE k \in 1..Len(packages) : packages[k].fmri.name = staged.fmri.name
        IN
        /\ (o.obsolete /\ ~n.obsolete /\ o.version <= n.version)
             => /\ problems' = problems
                /\ Len(packages') = Len(packages)
                /\ AsValue(packages'[i]) = AsValue(staged)
                /\ \A k \in 1..Len(packages) : k # i => packages'[k] = packages[k]
                /\ ~panicked'
        /\ (o.obsolete /\ ~n.obsolete /\ o.version > n.version)
             => AppendsConflict(NoCulprit) /\ packages' = packages /\ ~panicked'
        /\ (~o.obsolete /\ n.obsolete /\ o.version <= n.version)
             => AppendsConflict(NoCulprit) /\ packages' = packages /\ ~panicked'
        /\ (~o.obsolete /\ n.obsolete /\ o.version > n.version)
             => problems' = problems /\ packages' = packages /\ ~panicked'
      ]_vars

\* C4: when both sides are obsolete in their lowest version, add_package
\* appends no problem, whatever the versions and the publishers, and the
\* canonical entry of the name is obsolete (in its lowest version) afterwards.
C4_BothObsoleteSilent ==
    [][(MergeStep /\ Lowest(Existing).obsolete /\ Lowest(staged).obsolete)
        => /\ problems' = problems
           /\ ~panicked'
           /\ Len(packages') = Len(packages)
           /\ Known(packages', staged.fmri.name)
           /\ Lowest(Entry(packages', staged.fmri.name)).obsolete]_vars

\* an obsolete package of another publisher and another lowest version has
\* just been merged into an obsolete entry
C4_Witness ==
    /\ last.op = "add_package"
    /\ ~panicked
    /\ last.arg.versions # <<>>
    /\ Lowest(last.arg).obsolete
    /\ Known(packages, last.arg.fmri.name)
    /\ LET e == Entry(packages, last.arg.fmri.name) IN
         /\ e.fmri.publisher # last.arg.fmri.publisher
         /\ e.versions # <<>>
         /\ Lowest(e).obsolete
         /\ Lowest(e).version > Lowest(last.arg).version

----------------------------------------------------------------------------
(* Order of ingestion *)

BothOrdersDone == last.op = "add_package" /\ last.call = 2

BothObsolete(a, b) == Lowest(a).obsolete /\ Lowest(b).obsolete

\* p is obsolete, q is live, and p's version is at most / below q's
ObsoleteNotAbove(p, q) ==
    Lowest(p).obsolete /\ ~Lowest(q).obsolete /\ Lowest(p).version <= Lowest(q).version

ObsoleteBelow(p, q) ==
    Lowest(p).obsolete /\ ~Lowest(q).obsolete /\ Lowest(p).version < Lowest(q).version

\* the canonical entry and the set of diagnostics agree
SameEntryAndDiagnostics ==
    /\ Len(packages) = 1 /\ Len(mirror.packages) = 1
    /\ AsValue(packages[1]) = AsValue(mirror.packages[1])
    /\ Range(problems) = Range(mirror.problems)

SameOutcome == ~panicked /\ ~mirror.panicked /\ SameEntryAndDiagnostics

----------------------------------------------------------------------------
(* Flags of versions and packages *)

\* the packages of the registry and the one the loader is building
AllPackages == Range(packages) \cup (IF staged = NoPackage THEN {} ELSE {staged})

\* C6: no stored PackageVersion is obsolete and renamed at once.
C6_NeverObsoleteAndRenamed ==
    \A p \in AllPackages : \A v \in Range(p.versions) : ~(v.obsolete /\ v.renamed)

\* C7: the package-level obsolete (renamed) flag is TRUE exactly when some
\* stored version of the package is obsolete (renamed).
C7_AggregateMirrorsVersions ==
    \A p \in AllPackages :
        /\ p.obsolete = (\E v \in Range(p.versions) : v.obsolete)
        /\ p.renamed = (\E v \in Range(p.versions) : v.renamed)

----------------------------------------------------------------------------
(* Version pruning *)

Pruned == last.op = "remove_old_versions"

Highest(vs) == CHOOSE v \in vs : \A w \in vs : w.version <= v.version

Survivor(package) ==
    LET all == Range(package.versions)
        unflagged == {v \in all : ~v.obsolete /\ ~v.renamed}
    IN IF unflagged # {} THEN Highest(unflagged) ELSE Highest(all)

\* the packages the loop reached: those before the first one without versions
Reached(before, i) == \A j \in 1..i : before[j].versions # <<>>

\* C9: for every package with at least one version, the single version kept
\* by remove_old_versions is the highest one that is neither obsolete nor
\* renamed if there is one, else the highest one, with its own flags and
\* runtime dependencies; nothing else of the package changes.
C9_SurvivorIsHighestUnflagged ==
    Pruned =>
        \A i \in 1..Len(last.before) :
            Reached(last.before, i) =>
                packages[i] = [last.before[i] EXCEPT
                                  !.versions = <<Survivor(last.before[i])>>]

\* a package whose highest version is flagged has been pruned to a lower,
\* unflagged version, and one with flagged versions only to its highest
C9_Witness ==
    /\ Pruned
    /\ ~panicked
    /\ \E i \in 1..Len(packages) :
         /\ Len(last.before[i].versions) > 1
         /\ packages[i].versions[1].version <
              Highest(Range(last.before[i].versions)).version
         /\ packages[i].versions[1].runtime # <<>>

----------------------------------------------------------------------------
(* packages/components.rs: Component, Components::new_component,           *)
(* get_component_by_name, add_repo_dependencies;                           *)
(* packages/package.rs: Package::set_component, Package::add_dependent     *)

DependencyTypes == {"Runtime", "Build", "Test", "SystemBuild", "SystemTest"}

ComponentNew(component_name) ==
    [name |-> component_name, packages |-> <<>>,
     build |-> <<>>, test |-> <<>>, sys_build |-> <<>>, sys_test |-> <<>>]

PackageInMultipleComponents(fmri, names) ==
    [kind |-> "PackageInMultipleComponents", fmri |-> fmri, components |-> names]

NonExistingPackageInPkg5(fmri, component_name) ==
    [kind |-> "NonExistingPackageInPkg5", fmri |-> fmri, component |-> component_name]

\* hash_components.get(name): the handle of the component inserted last under
\* that name (HashMap::insert replaces the value of a key), 0 for Err
get_component_by_name(cs, name) ==
    IF \E c \in 1..Len(cs) : cs[c].name = name
    THEN CHOOSE c \in 1..Len(cs) :
           /\ cs[c].name = name
           /\ \A d \in 1..Len(cs) : cs[d].name = name => d <= c
    ELSE 0

NoProblem == [kind |-> "None"]

\* a variant of set_component in which the later component takes the package
set_component_Overwrites(package, component, cs) ==
    [package |-> [package EXCEPT !.component = component],
     problem |-> IF package.component # NoComponent
                 THEN PackageInMultipleComponents(
                        package.fmri,
                        <<cs[package.component].name, cs[component].name>>)
                 ELSE NoProblem]

\* Package::set_component: component is the handle of the component
set_component(package, component, cs) ==
    IF package.component # NoComponent
    THEN [package |-> package,
          problem |-> PackageInMultipleComponents(
                        package.fmri,
                        <<cs[package.component].name, cs[component].name>>)]
    ELSE [package |-> [package EXCEPT !.component = component],
          problem |-> NoProblem]

\* the loop of new_component from the n-th member; c is the handle of the
\* component under construction, which is cs[c] already here (the code keeps
\* it in rc_component and pushes it after the loop, no step of the loop can
\* leave early or see the Vec)
RECURSIVE NewComponentFrom(_, _, _, _, _, _)
NewComponentFrom(pk, cs, sink, c, fmris, n) ==
    IF n > Len(fmris) THEN [packages |-> pk, components |-> cs, problems |-> sink]
    ELSE LET i == get_package_by_fmri(pk, fmris[n]) IN
         IF i = 0
         THEN NewComponentFrom(
                pk, cs,
                add_problem(sink, NonExistingPackageInPkg5(fmris[n], cs[c].name)),
                c, fmris, n + 1)
         ELSE LET cs2 == [cs EXCEPT ![c].packages = Append(@, i)]
                  r == set_component(pk[i], c, cs2)
              IN NewComponentFrom(
                   [pk EXCEPT ![i] = r.package], cs2,
                   IF r.problem = NoProblem THEN sink ELSE add_problem(sink, r.problem),
                   c, fmris, n + 1)

new_component(pk, cs, sink, component_name, fmris) ==
    NewComponentFrom(pk, Append(cs, ComponentNew(component_name)), sink,
                     Len(cs) + 1, fmris, 1)

\* Package::add_dependent
add_dependent(package, dependent, dependency_type) ==
    CASE dependency_type = "Runtime" -> [package |-> package, ok |-> FALSE]
      [] dependency_type = "Build" ->
           [package |-> [package EXCEPT !.build_dependents = Append(@, dependent)],
            ok |-> TRUE]
      [] dependency_type = "Test" ->
           [package |-> [package EXCEPT !.test_dependents = Append(@, dependent)],
            ok |-> TRUE]
      [] dependency_type = "SystemBuild" ->
           [package |-> [package EXCEPT !.sys_build_dependents = Append(@, dependent)],
            ok |-> TRUE]
      [] dependency_type = "SystemTest" ->
           [package |-> [package EXCEPT !.sys_test_dependents = Append(@, dependent)],
            ok |-> TRUE]

\* a variant of the match that files a SystemTest dependency under sys_build
PushDependency_SystemTestAsSystemBuild(component, i, dependency_type) ==
    CASE dependency_type = "Build" -> [component EXCEPT !.build = Append(@, i)]
      [] dependency_type = "Test" -> [component EXCEPT !.test = Append(@, i)]
      [] dependency_type = "SystemBuild" -> [component EXCEPT !.sys_build = Append(@, i)]
      [] dependency_type = "SystemTest" -> [component EXCEPT !.sys_build = Append(@, i)]

\* the match that pushes the weak package handle on the component
PushDependency(component, i, dependency_type) ==
    CASE dependency_type = "Build" -> [component EXCEPT !.build = Append(@, i)]
      [] dependency_type = "Test" -> [component EXCEPT !.test = Append(@, i)]
      [] dependency_type = "SystemBuild" -> [component EXCEPT !.sys_build = Append(@, i)]
      [] dependency_type = "SystemTest" -> [component EXCEPT !.sys_test = Append(@, i)]

RepoResult(pk, cs, sink, ok) ==
    [packages |-> pk, components |-> cs, problems |-> sink, ok |-> ok]

\* the loop of add_repo_dependencies from the n-th dependency
RECURSIVE AddRepoDependenciesFrom(_, _, _, _, _, _, _)
AddRepoDependenciesFrom(pk, cs, sink, component_name, dependencies, dependency_type, n) ==
    IF n > Len(dependencies) THEN RepoResult(pk, cs, sink, TRUE)
    ELSE LET fmri == dependencies[n]
             i == get_package_by_fmri(pk, fmri)
             c == get_component_by_name(cs, component_name)
         IN IF i = 0
            THEN AddRepoDependenciesFrom(
                   pk, cs,
                   add_problem(sink,
                       NonExistingRequired(Require(fmri), dependency_type,
                                           NoneFmri, component_name)),
                   component_name, dependencies, dependency_type, n + 1)
            ELSE IF c = 0 THEN RepoResult(pk, cs, sink, FALSE)
            ELSE IF dependency_type = "Runtime" THEN RepoResult(pk, cs, sink, FALSE)
            ELSE LET cs2 == [cs EXCEPT ![c] = PushDependency(@, i, dependency_type)]
                     r == add_dependent(pk[i], c, dependency_type)
                 IN IF ~r.ok THEN RepoResult(pk, cs2, sink, FALSE)
                    ELSE AddRepoDependenciesFrom(
                           [pk EXCEPT ![i] = r.package], cs2, sink,
                           component_name, dependencies, dependency_type, n + 1)

add_repo_dependencies(pk, cs, sink, component_name, dependencies, dependency_type) ==
    AddRepoDependenciesFrom(pk, cs, sink, component_name, dependencies,
                            dependency_type, 1)

----------------------------------------------------------------------------
(* packages/components.rs: Components::check_problems and                  *)
(* check_obsoleted_required_packages. A pass is the sequence of what its   *)
(* loops do in order: the diagnostics they append, and a marker where the  *)
(* code returns Err or panics                                              *)

ObsoletedPackageInComponent(fmri, component_name) ==
    [kind |-> "ObsoletedPackageInComponent", fmri |-> fmri, component |-> component_name]

RenamedPackageInComponent(fmri, component_name) ==
    [kind |-> "RenamedPackageInComponent", fmri |-> fmri, component |-> component_name]

MissingComponentForPackage(fmri) ==
    [kind |-> "MissingComponentForPackage", fmri |-> fmri]

UselessComponent(component_name) ==
    [kind |-> "UselessComponent", component |-> component_name]

RenamedNeedsRenamed(fmri_a, fmri_b) ==
    [kind |-> "RenamedNeedsRenamed", a |-> fmri_a, b |-> fmri_b]

\* ObsoletedRequired and PartlyObsoletedRequired
Required(kind, d_type, dependency_type, fmri, component_name) ==
    [kind |-> kind, d_type |-> d_type, dependency_type |-> dependency_type,
     fmri |-> fmri, component |-> component_name]

\* ObsoletedRequiredByRenamed and PartlyObsoletedRequiredByRenamed
RequiredByRenamed(kind, d_type, dependency_type, fmri) ==
    [kind |-> kind, d_type |-> d_type, dependency_type |-> dependency_type,
     fmri |-> fmri]

ReturnsErr == [kind |-> "Err"]
Panics == [kind |-> "panic"]

RECURSIVE Flatten(_)
Flatten(ss) ==
    IF ss = <<>> THEN <<>> ELSE ss[1] \o Flatten(SubSeq(ss, 2, Len(ss)))

\* ObsoletedPackageInComponent and RenamedPackageInComponent
MembershipPass(pk, cs) ==
    Flatten([c \in 1..Len(cs) |->
      Flatten([m \in 1..Len(cs[c].packages) |->
        LET package == pk[cs[c].packages[m]] IN
        IF package.obsolete
        THEN <<ObsoletedPackageInComponent(package.fmri, cs[c].name)>>
        ELSE IF package.renamed
        THEN <<RenamedPackageInComponent(package.fmri, cs[c].name)>>
        ELSE <<>>])])

\* MissingComponentForPackage
OrphanPass(pk) ==
    Flatten([i \in 1..Len(pk) |->
      IF pk[i].component = NoComponent /\ ~pk[i].renamed /\ ~pk[i].obsolete
      THEN <<MissingComponentForPackage(pk[i].fmri)>>
      ELSE <<>>])

\* the closure given to all(): the member needs nothing but pinning
NothingNeeds(package) ==
    /\ ~(package.obsolete \/ package.renamed)
    /\ \A n \in 1..Len(package.runtime_dependents) :
         package.runtime_dependents[n].kind = "Incorporate"
    /\ package.build_dependents = <<>>
    /\ package.test_dependents = <<>>
    /\ package.sys_build_dependents = <<>>
    /\ package.sys_build_dependents = <<>>

\* the closure check: some dependent component has another name
OtherComponent(deps, cs, name) ==
    ~(\A n \in 1..Len(deps) : name = cs[deps[n]].name)

\* the else branch: no member reaches  continue 'main
ClosedWithin(pk, cs, c) ==
    LET packages_fmris == {pk[cs[c].packages[m]].fmri : m \in 1..Len(cs[c].packages)} IN
    \A m \in 1..Len(cs[c].packages) :
      LET package == pk[cs[c].packages[m]] IN
      /\ \A n \in 1..Len(package.runtime_dependents) :
           package.runtime_dependents[n].kind # "Incorporate" =>
             package.runtime_dependents[n].f \in packages_fmris
      /\ ~(\/ OtherComponent(package.build_dependents, cs, cs[c].name)
           \/ OtherComponent(package.sys_build_dependents, cs, cs[c].name)
           \/ OtherComponent(package.test_dependents, cs, cs[c].name)
           \/ OtherComponent(package.sys_test_dependents, cs, cs[c].name))

\* UselessComponent
UselessPass(pk, cs) ==
    Flatten([c \in 1..Len(cs) |->
      IF \A m \in 1..Len(cs[c].packages) : NothingNeeds(pk[cs[c].packages[m]])
      THEN <<UselessComponent(cs[c].name)>>
      ELSE IF ClosedWithin(pk, cs, c)
      THEN <<UselessComponent(cs[c].name)>>
      ELSE <<>>])

\* check_dependencies of the RenamedNeedsRenamed pass
RenamedDependencies(pk, package, dependencies) ==
    Flatten([n \in 1..Len(dependencies) |->
      IF pk[dependencies[n]].renamed
      THEN <<RenamedNeedsRenamed(package.fmri, pk[dependencies[n]].fmri)>>
      ELSE <<>>])

\* RenamedNeedsRenamed
RenamedPass(pk, cs) ==
    Flatten([i \in 1..Len(pk) |->
      IF ~pk[i].renamed THEN <<>>
      ELSE
        Flatten([n \in 1..Len(pk[i].runtime_dependents) |->
          LET b == get_package_by_fmri(pk, pk[i].runtime_dependents[n].f) IN
          IF b = 0 THEN <<ReturnsErr>>
          ELSE IF ~pk[b].renamed THEN <<>>
          ELSE <<RenamedNeedsRenamed(pk[b].fmri, pk[i].fmri)>>])
        \o (IF pk[i].component = NoComponent THEN <<>>
            ELSE LET component == cs[pk[i].component] IN
                 RenamedDependencies(pk, pk[i], component.build)
                 \o RenamedDependencies(pk, pk[i], component.test)
                 \o RenamedDependencies(pk, pk[i], component.sys_build)
                 \o RenamedDependencies(pk, pk[i], component.sys_test))])

\* the closure check of check_obsoleted_required_packages
RequiredByComponents(cs, package, problem_type, deps, dt) ==
    [n \in 1..Len(deps) |->
       Required(problem_type, Require(package.fmri), dt, NoneFmri, cs[deps[n]].name)]

\* a variant that reports a dependent that is obsolete itself
RequiredAtRuntime_KeepsObsolete(pk, package, problem_type, problem_type_renamed) ==
    Flatten([n \in 1..Len(package.runtime_dependents) |->
      LET d == package.runtime_dependents[n]
          p == get_package_by_fmri(pk, d.f)
      IN IF d.kind = "Incorporate" THEN <<>>
         ELSE IF p = 0 THEN <<Panics>>
         ELSE IF pk[p].renamed
         THEN <<RequiredByRenamed(problem_type_renamed, Require(package.fmri),
                                  "Runtime", d.f)>>
         ELSE <<Required(problem_type, Require(package.fmri), "Runtime", d.f, "")>>])

\* the loop over the runtime dependents
RequiredAtRuntime(pk, package, problem_type, problem_type_renamed) ==
    Flatten([n \in 1..Len(package.runtime_dependents) |->
      LET d == package.runtime_dependents[n]
          p == get_package_by_fmri(pk, d.f)
      IN IF d.kind = "Incorporate" THEN <<>>
         ELSE IF p = 0 THEN <<Panics>>
         ELSE IF pk[p].obsolete THEN <<>>
         ELSE IF pk[p].renamed
         THEN <<RequiredByRenamed(problem_type_renamed, Require(package.fmri),
                                  "Runtime", d.f)>>
         ELSE <<Required(problem_type, Require(package.fmri), "Runtime", d.f, "")>>])

check_obsoleted_required_packages(pk, cs, package, problem_type, problem_type_renamed) ==
    RequiredByComponents(cs, package, problem_type, package.build_dependents, "Build")
    \o RequiredByComponents(cs, package, problem_type, package.sys_build_dependents, "SystemBuild")
    \o RequiredByComponents(cs, package, problem_type, package.test_dependents, "Test")
    \o RequiredByComponents(cs, package, problem_type, package.sys_test_dependents, "SystemTest")
    \o RequiredAtRuntime(pk, package, problem_type, problem_type_renamed)

\* a variant of the pass that does not look at the first version
ObsoletePass_AlwaysObsoleted(pk, cs) ==
    Flatten([i \in 1..Len(pk) |->
      IF ~pk[i].obsolete THEN <<>>
      ELSE IF pk[i].versions = <<>> THEN <<Panics>>
      ELSE check_obsoleted_required_packages(
             pk, cs, pk[i], "ObsoletedRequired", "ObsoletedRequiredByRenamed")])

\* ObsoletedRequired, ObsoletedRequiredByRenamed, PartlyObsoletedRequired,
\* PartlyObsoletedRequiredByRenamed
ObsoletePass(pk, cs) ==
    Flatten([i \in 1..Len(pk) |->
      IF ~pk[i].obsolete THEN <<>>
      ELSE IF pk[i].versions = <<>> THEN <<Panics>>
      ELSE IF pk[i].versions[1].obsolete
      THEN check_obsoleted_required_packages(
             pk, cs, pk[i], "ObsoletedRequired", "ObsoletedRequiredByRenamed")
      ELSE check_obsoleted_required_packages(
             pk, cs, pk[i], "PartlyObsoletedRequired",
             "PartlyObsoletedRequiredByRenamed")])

\* what happens up to the first Err or panic
RECURSIVE UntilStopped(_)
UntilStopped(events) ==
    IF events = <<>> THEN <<>>
    ELSE IF events[1] \in {ReturnsErr, Panics} THEN <<events[1]>>
    ELSE <<events[1]>> \o UntilStopped(SubSeq(events, 2, Len(events)))

\* a variant that starts from an empty sink
check_problems_ClearsSink(pk, cs, sink) ==
    LET done == UntilStopped(MembershipPass(pk, cs) \o OrphanPass(pk)
                             \o UselessPass(pk, cs) \o RenamedPass(pk, cs)
                             \o ObsoletePass(pk, cs))
        stopped == done # <<>> /\ done[Len(done)] \in {ReturnsErr, Panics}
    IN [problems |-> IF stopped THEN SubSeq(done, 1, Len(done) - 1) ELSE done,
        ok |-> ~stopped,
        panicked |-> stopped /\ done[Len(done)] = Panics]

check_problems(pk, cs, sink) ==
    LET done == UntilStopped(MembershipPass(pk, cs) \o OrphanPass(pk)
                             \o UselessPass(pk, cs) \o RenamedPass(pk, cs)
                             \o ObsoletePass(pk, cs))
        stopped == done # <<>> /\ done[Len(done)] \in {ReturnsErr, Panics}
    IN [problems |-> sink \o (IF stopped THEN SubSeq(done, 1, Len(done) - 1) ELSE done),
        ok |-> ~stopped,
        panicked |-> stopped /\ done[Len(done)] = Panics]

----------------------------------------------------------------------------
(* Component creation and dependency attachment *)

\* the packages known when the components are created; C is never ingested
CompIncoming ==
    {BuildPackage(FMRI("A", NoVersion, "X"), <<PackageVersionNew(1)>>),
     BuildPackage(FMRI("B", NoVersion, "X"), <<PackageVersionNew(1)>>)}

CompTargets ==
    [A |-> FMRI("A", NoVersion, NoPublisher),
     B |-> FMRI("B", NoVersion, NoPublisher),
     C |-> FMRI("C", NoVersion, NoPublisher)]

\* new_component calls: name and member FMRIs
ComponentInputs ==
    {<<"c", <<CompTargets.A>>>>,
     <<"d", <<CompTargets.A, CompTargets.B>>>>,
     <<"d", <<CompTargets.A, CompTargets.A>>>>,
     <<"c", <<CompTargets.C>>>>}

\* add_repo_dependencies calls: component name, dependencies, class
RepoInputs ==
    {<<name, deps, class>> :
        name \in {"c", "e"},
        deps \in {<<>>, <<CompTargets.A>>, <<CompTargets.C, CompTargets.A>>,
                  <<CompTargets.A, CompTargets.C>>},
        class \in {"Runtime", "Build", "SystemTest"}}

\* the size of the component graph and of the sink
DependencyEdges(cs) ==
    IF cs = <<>> THEN 0
    ELSE LET Sum[c \in 0..Len(cs)] ==
               IF c = 0 THEN 0
               ELSE Sum[c - 1] + Len(cs[c].build) + Len(cs[c].test)
                    + Len(cs[c].sys_build) + Len(cs[c].sys_test)
         IN Sum[Len(cs)]

GraphSize == Len(components) + DependencyEdges(components) + Len(problems)

NewComponent(inputs) ==
    /\ ~panicked
    /\ Attaching
    /\ GraphSize < MaxGraph
    /\ \E in \in inputs :
         LET r == new_component(packages, components, problems, in[1], in[2]) IN
         /\ packages' = r.packages
         /\ components' = r.components
         /\ problems' = r.problems
         /\ last' = [op |-> "new_component", name |-> in[1], fmris |-> in[2],
                     before |-> packages, components |-> components,
                     sink |-> problems]
    /\ UNCHANGED <<staged, panicked, mirror>>

AddRepoDependencies(inputs) ==
    /\ ~panicked
    /\ Attaching
    /\ GraphSize < MaxGraph
    /\ \E in \in inputs :
         LET r == add_repo_dependencies(packages, components, problems,
                                        in[1], in[2], in[3]) IN
         /\ packages' = r.packages
         /\ components' = r.components
         /\ problems' = r.problems
         /\ last' = [op |-> "add_repo_dependencies", name |-> in[1],
                     dependencies |-> in[2], dependency_type |-> in[3],
                     ok |-> r.ok, before |-> packages,
                     components |-> components, sink |-> problems]
    /\ UNCHANGED <<staged, panicked, mirror>>

NextComponents ==
    \/ IngestNewPackage(CompIncoming)
    \/ NewComponent(ComponentInputs)
    \/ AddRepoDependencies(RepoInputs)

SpecComponents == Init /\ [][NextComponents]_vars

----------------------------------------------------------------------------
(* The pipeline up to the problem check: packages, components, component   *)
(* dependencies, reverse distribution, check_problems                      *)

Flagged(version, obsolete, renamed) ==
    [PackageVersionNew(version) EXCEPT !.obsolete = obsolete, !.renamed = renamed]

\* A: live, obsolete, renamed, with a live version 2 added before an
\* obsolete version 1, or without a version and set obsolete
\* (Package::set_obsolete)
CheckIncomingA ==
    {BuildPackage(FMRI("A", NoVersion, "X"), vs) :
        vs \in {<<Flagged(1, FALSE, FALSE)>>,
                <<Flagged(1, TRUE, FALSE)>>,
                <<Flagged(1, FALSE, TRUE)>>,
                <<Flagged(2, FALSE, FALSE), Flagged(1, TRUE, FALSE)>>}}
    \cup {[PackageNew(FMRI("A", NoVersion, "X")) EXCEPT !.obsolete = TRUE]}

\* B: live, obsolete or renamed, with runtime dependencies on A
CheckIncomingB ==
    {BuildPackage(FMRI("B", NoVersion, "X"),
                  <<[Flagged(1, fl[1], fl[2]) EXCEPT !.runtime = deps]>>) :
        fl \in {<<FALSE, FALSE>>, <<TRUE, FALSE>>, <<FALSE, TRUE>>},
        deps \in {<<Require(CompTargets.A)>>,
                  <<Require(CompTargets.A), Optional(CompTargets.A)>>,
                  <<Incorporate(CompTargets.A)>>}}

CheckComponentInputs ==
    {<<"c", <<CompTargets.A>>>>,
     <<"d", <<CompTargets.B>>>>,
     <<"c", <<CompTargets.A, CompTargets.B>>>>}

CheckRepoInputs ==
    {<<"d", <<CompTargets.A>>, "SystemTest">>,
     <<"d", <<CompTargets.A>>, "Build">>,
     <<"c", <<CompTargets.A>>, "Test">>}

CheckProblems ==
    /\ ~panicked
    /\ Distributed
    /\ LET r == check_problems(packages, components, problems) IN
         /\ problems' = r.problems
         /\ panicked' = r.panicked
         /\ last' = [op |-> "check_problems", ok |-> r.ok,
                     before |-> packages, components |-> components,
                     sink |-> problems]
    /\ UNCHANGED <<packages, components, staged, mirror>>

NextCheck ==
    \/ IngestNewPackage(CheckIncomingA \cup CheckIncomingB)
    \/ NewComponent(CheckComponentInputs)
    \/ AddRepoDependencies(CheckRepoInputs)
    \/ Distribute
    \/ CheckProblems

SpecCheck == Init /\ [][NextCheck]_vars

----------------------------------------------------------------------------
(* Every operation of the registry on one graph *)

\* A from publisher X with an obsolete version, A from publisher Y with a
\* live version that requires B, and B with two versions requiring A and C
GraphIncoming ==
    {BuildPackage(FMRI("A", NoVersion, "X"), <<Flagged(1, TRUE, FALSE)>>),
     BuildPackage(FMRI("A", NoVersion, "Y"),
                  <<[Flagged(1, FALSE, FALSE) EXCEPT
                       !.runtime = <<Require(CompTargets.B)>>]>>),
     BuildPackage(FMRI("B", NoVersion, "X"),
                  <<[Flagged(1, FALSE, FALSE) EXCEPT
                       !.runtime = <<Require(CompTargets.A)>>],
                    [Flagged(2, FALSE, TRUE) EXCEPT
                       !.runtime = <<Optional(CompTargets.C)>>]>>)}

GraphComponentInputs ==
    {<<"c", <<CompTargets.A, CompTargets.B>>>>, <<"c", <<CompTargets.C>>>>}

GraphRepoInputs ==
    {<<"c", <<CompTargets.A>>, "Build">>, <<"c", <<CompTargets.B>>, "SystemTest">>}

NextGraph ==
    \/ IngestPackage(GraphIncoming)
    \/ NewComponent(GraphComponentInputs)
    \/ AddRepoDependencies(GraphRepoInputs)
    \/ SetPackageObsolete({CompTargets.B})
    \/ SetPackageRenamed({CompTargets.A})
    \/ RemoveOldVersions
    \/ Distribute
    \/ CheckProblems

SpecGraph == Init /\ [][NextGraph]_vars

----------------------------------------------------------------------------
(* Reverse distribution: what each recorded entry turns into *)

Count(x, s) == Cardinality({n \in 1..Len(s) : s[n] = x})

\* what one call appended to the dependents of the i-th package, and to the sink
NewEdges(i) ==
    SubSeq(packages[i].runtime_dependents,
           Len(last.before[i].runtime_dependents) + 1,
           Len(packages[i].runtime_dependents))

NewProblems == SubSeq(problems, Len(last.sink) + 1, Len(problems))

\* the targets of a dependency entry, each with the shape its edge shall have
TargetsOf(d) ==
    IF d.kind = "RequireAny" THEN [c \in 1..Len(d.l) |-> <<d.l[c], "Require">>]
    ELSE IF d.kind = "Conditional"
    THEN <<<<d.f, "ConditionalFmri">>, <<d.p, "ConditionalPredicate">>>>
    ELSE <<<<d.f, d.kind>>>>

\* every (entry, target slot) of the registry: [target, edge] with its position
Incidences(pk) ==
    UNION {{[entry |-> e, slot |-> c,
             target |-> TargetsOf(EntryAt(pk, e))[c][1],
             edge |-> Rev(TargetsOf(EntryAt(pk, e))[c][2], pk[e[1]].fmri)] :
               c \in 1..Len(TargetsOf(EntryAt(pk, e)))} :
             e \in Entries(pk)}

Resolves(pk, fmri) == \E i \in 1..Len(pk) : pk[i].fmri.name = fmri.name

\* the incidences without their position: one for each distinct target FMRI,
\* shape and source package
DistinctIncidences(pk) ==
    {[target |-> inc.target, edge |-> inc.edge] : inc \in Incidences(pk)}

MissingKinds == {"NonExistingRequired", "NonExistingRequiredByRenamed"}

\* C10 (as claimed): distribution does not fail, and every runtime dependency
\* entry of every stored version yields exactly one reverse edge at each of
\* its targets that resolves, and one missing-dependency diagnostic for each
\* target that does not; a RequireAny entry with k candidates yields k edges
\* of the Require shape.
C10_OneEdgePerEntry ==
    Distributed =>
      /\ ~panicked
      /\ \A i \in 1..Len(packages) :
           \A edge \in Range(NewEdges(i))
                        \cup {inc.edge : inc \in Incidences(last.before)} :
             Count(edge, NewEdges(i)) =
               Cardinality({inc \in Incidences(last.before) :
                              /\ inc.target.name = packages[i].fmri.name
                              /\ inc.edge = edge})
      /\ Len(NewProblems) =
           Cardinality({inc \in Incidences(last.before) :
                          ~Resolves(last.before, inc.target)})
      /\ \A n \in 1..Len(NewProblems) : NewProblems[n].kind \in MissingKinds

\* C10 (amended): distribution does not fail, and the entries of one source
\* package that share target FMRI and shape count once: each distinct
\* (target FMRI, shape, source package) yields exactly one reverse edge at the
\* package the target resolves to, or exactly one missing-dependency
\* diagnostic when it resolves to none; a RequireAny candidate counts as a
\* Require target.
C10_OneEdgePerDistinctTarget ==
    Distributed =>
      /\ ~panicked
      /\ \A i \in 1..Len(packages) :
           \A edge \in Range(NewEdges(i))
                        \cup {inc.edge : inc \in Incidences(last.before)} :
             Count(edge, NewEdges(i)) =
               Cardinality({inc \in DistinctIncidences(last.before) :
                              /\ inc.target.name = packages[i].fmri.name
                              /\ inc.edge = edge})
      /\ Len(NewProblems) =
           Cardinality({inc \in DistinctIncidences(last.before) :
                          ~Resolves(last.before, inc.target)})
      /\ \A n \in 1..Len(NewProblems) : NewProblems[n].kind \in MissingKinds
      /\ \A inc \in DistinctIncidences(last.before) :
           ~Resolves(last.before, inc.target) =>
             \E n \in 1..Len(NewProblems) :
               /\ NewProblems[n].fmri = inc.edge.f
               /\ NewProblems[n].d_type = RebuildDependType(inc.edge, inc.target)

\* a RequireAny entry with one candidate that resolves and one that does not
\* has been distributed, next to a second entry
C10_Witness ==
    /\ Distributed
    /\ ~panicked
    /\ Cardinality(Entries(last.before)) > 1
    /\ \E e \in Entries(last.before) :
         /\ EntryAt(last.before, e).kind = "RequireAny"
         /\ \E c \in 1..Len(EntryAt(last.before, e).l) :
              Resolves(last.before, EntryAt(last.before, e).l[c])
         /\ \E c \in 1..Len(EntryAt(last.before, e).l) :
              ~Resolves(last.before, EntryAt(last.before, e).l[c])
    /\ \E i \in 1..Len(packages) : NewEdges(i) # <<>>
    /\ NewProblems # <<>>

----------------------------------------------------------------------------
(* The component link of a package *)

CreatedComponent == last.op = "new_component"

\* how often the member list of the last new_component call names package i
Listed(i) ==
    Cardinality({n \in 1..Len(last.fmris) :
                   get_package_by_fmri(last.before, last.fmris[n]) = i})

\* C11: once the component link of a package is set, a later set_component
\* (new_component listing the package as a member) leaves the link at the
\* first component and appends one PackageInMultipleComponents diagnostic
\* naming the package, the first component and the attempted component.
C11_FirstComponentStays ==
    CreatedComponent =>
      \A i \in 1..Len(last.before) :
        LET first == IF last.before[i].component # NoComponent
                     THEN last.before[i].component
                     ELSE Len(last.components) + 1
            refused == IF last.before[i].component # NoComponent
                       THEN Listed(i) ELSE Listed(i) - 1
        IN Listed(i) > 0 =>
             /\ packages[i].component = first
             /\ Count(PackageInMultipleComponents(
                        packages[i].fmri,
                        <<components[first].name, last.name>>),
                      NewProblems) = refused

\* a package that belongs to a component of another name was listed again
C11_Witness ==
    /\ CreatedComponent
    /\ \E i \in 1..Len(last.before) :
         /\ last.before[i].component # NoComponent
         /\ last.components[last.before[i].component].name # last.name
         /\ Listed(i) > 0

----------------------------------------------------------------------------
(* The Runtime class in add_repo_dependencies *)

AttachedDependencies == last.op = "add_repo_dependencies"

\* C12: every add_repo_dependencies call with the class Runtime returns an
\* error, for every dependency list (the empty one and those whose targets
\* do not resolve included), adds no edge to a component, no dependent to a
\* package, and appends no diagnostic.
C12_RuntimeAlwaysRejected ==
    (AttachedDependencies /\ last.dependency_type = "Runtime") =>
      /\ ~last.ok
      /\ packages = last.before
      /\ components = last.components
      /\ problems = last.sink

----------------------------------------------------------------------------
(* The problem check *)

\* C13 (a): nothing but version pins needs the package
OnlyPinned(package) ==
    /\ ~package.obsolete
    /\ ~package.renamed
    /\ \A n \in 1..Len(package.runtime_dependents) :
         package.runtime_dependents[n].kind = "Incorporate"
    /\ package.build_dependents = <<>>
    /\ package.test_dependents = <<>>
    /\ package.sys_build_dependents = <<>>
    /\ package.sys_test_dependents = <<>>

\* C13 (b): what needs the package is in component c
NeededWithin(pk, cs, package, c) ==
    /\ \A n \in 1..Len(package.runtime_dependents) :
         package.runtime_dependents[n].kind # "Incorporate" =>
           \E m \in 1..Len(cs[c].packages) :
             pk[cs[c].packages[m]].fmri = package.runtime_dependents[n].f
    /\ \A d \in Range(package.build_dependents) \cup Range(package.test_dependents)
                 \cup Range(package.sys_build_dependents)
                 \cup Range(package.sys_test_dependents) :
         cs[d].name = cs[c].name

Useless(pk, cs, c) ==
    \A m \in 1..Len(cs[c].packages) :
      \/ OnlyPinned(pk[cs[c].packages[m]])
      \/ NeededWithin(pk, cs, pk[cs[c].packages[m]], c)

\* C13: check_problems reports UselessComponent(C) once for a component C
\* all of whose members satisfy (a) or (b), and not at all for another one.
C13_UselessIffUnneeded ==
    (Checked /\ last.ok /\ ~panicked) =>
      \A c \in 1..Len(components) :
        Count(UselessComponent(components[c].name), NewProblems) =
          Cardinality({d \in 1..Len(components) :
                         /\ components[d].name = components[c].name
                         /\ Useless(packages, components, d)})

ObsoletedFamily ==
    {"ObsoletedRequired", "ObsoletedRequiredByRenamed",
     "PartlyObsoletedRequired", "PartlyObsoletedRequiredByRenamed"}

\* the obsoleted-required diagnostics of the last check that name the package
ObsoletedReports(package) ==
    {n \in 1..Len(NewProblems) :
       /\ NewProblems[n].kind \in ObsoletedFamily
       /\ NewProblems[n].d_type = Require(package.fmri)}

ComponentDependents(package) ==
    Len(package.build_dependents) + Len(package.test_dependents)
    + Len(package.sys_build_dependents) + Len(package.sys_test_dependents)

\* the runtime dependent edges of the package that are not pins
RequiringEdges(package) ==
    {n \in 1..Len(package.runtime_dependents) :
       package.runtime_dependents[n].kind # "Incorporate"}

SourceOf(edge) == Entry(packages, edge.f.name)

DependsAtRuntime(s, r) ==
    \E k \in 1..Len(s.versions) :
      \E j \in 1..Len(s.versions[k].runtime) :
        \E c \in 1..Len(TargetsOf(s.versions[k].runtime[j])) :
          TargetsOf(s.versions[k].runtime[j])[c][1].name = r.fmri.name

\* C15: for every pair of renamed packages R and S such that S has a runtime
\* dependency on R (any shape, any stored version, any number of entries),
\* after one reverse distribution check_problems reports
\* RenamedNeedsRenamed(S, R) exactly once.
C15_RenamedPairOnce ==
    (Checked /\ last.ok /\ ~panicked) =>
      \A r \in 1..Len(packages) :
        \A s \in 1..Len(packages) :
          (/\ packages[r].renamed
           /\ packages[s].renamed
           /\ DependsAtRuntime(packages[s], packages[r])) =>
            Count(RenamedNeedsRenamed(packages[s].fmri, packages[r].fmri),
                  NewProblems) = 1

----------------------------------------------------------------------------
(* Referential integrity *)

PackageHandles == 1..Len(packages)
ComponentHandles == 1..Len(components)

\* every handle held by a component or a package is a record of the registry
HandlesResolve ==
    /\ \A c \in ComponentHandles :
         Range(components[c].packages) \cup Range(components[c].build)
         \cup Range(components[c].test) \cup Range(components[c].sys_build)
         \cup Range(components[c].sys_test) \subseteq PackageHandles
    /\ \A i \in PackageHandles :
         /\ packages[i].component \in ComponentHandles \cup {NoComponent}
         /\ Range(packages[i].build_dependents) \cup Range(packages[i].test_dependents)
            \cup Range(packages[i].sys_build_dependents)
            \cup Range(packages[i].sys_test_dependents) \subseteq ComponentHandles

\* the source of every reverse runtime edge resolves by name
SourcesResolve ==
    \A i \in PackageHandles :
      \A n \in 1..Len(packages[i].runtime_dependents) :
        get_package_by_fmri(packages, packages[i].runtime_dependents[n].f) # 0

\* no step takes a package or a component out of the registry
NothingRemoved ==
    /\ Len(packages') >= Len(packages)
    /\ \A i \in PackageHandles : packages'[i].fmri.name = packages[i].fmri.name
    /\ Len(components') >= Len(components)
    /\ \A c \in ComponentHandles : components'[c].name = components[c].name

\* C16: in every state reachable through the registry operations every
\* handle held by a component or a package resolves to a record of the
\* registry and the source of every reverse runtime edge resolves through
\* get_package_by_fmri, so distribution does not reach its panic branch and
\* the problem check neither fails nor panics on a lookup; no operation
\* removes a package from the registry.
C16_ReferentialIntegrity ==
    /\ [](/\ HandlesResolve
          /\ SourcesResolve
          /\ Distributed => ~panicked
          /\ Checked => (last.ok /\ ~panicked))
    /\ [][NothingRemoved]_vars

\* a member of a component has been replaced by add_package, which took its
\* component link, B has been pruned to one version, and the edges have been
\* distributed
C16_Witness ==
    /\ Distributed
    /\ ~panicked
    /\ \E c \in ComponentHandles :
         \E m \in 1..Len(components[c].packages) :
           /\ packages[components[c].packages[m]].component = NoComponent
           /\ packages[components[c].packages[m]].fmri.publisher = "Y"
    /\ \E i \in PackageHandles :
         /\ packages[i].fmri.name = "B"
         /\ Len(packages[i].versions) = 1
         /\ packages[i].runtime_dependents # <<>>
    /\ problems # <<>>

----------------------------------------------------------------------------
(* Component names *)

\* C17: the component list holds at most one component per name, and that
\* component is the one get_component_by_name returns for the name.
C17_NameIsUniqueKey ==
    \A c \in 1..Len(components) :
      /\ \A d \in 1..Len(components) :
           components[d].name = components[c].name => d = c
      /\ get_component_by_name(components, components[c].name) = c

----------------------------------------------------------------------------
(* Conflict paths of add_package *)

\* the incoming package and the entry it meets are on one of the three
\* conflict paths of the merge
ConflictPath ==
    LET o == Lowest(Existing)
        n == Lowest(staged)
    IN \/ o.obsolete /\ ~n.obsolete /\ o.version > n.version
       \/ ~o.obsolete /\ n.obsolete /\ o.version <= n.version
       \/ ~o.obsolete /\ ~n.obsolete

\* C18: every conflict path of add_package appends its
\* SamePackageHasTwoPublishers problem carrying both publishers and returns
\* normally, also when an FMRI carries no publisher.
C18_ConflictReportedAndContinues ==
    [][(MergeStep /\ ConflictPath)
        => /\ \E c \in Publishers \cup {NoCulprit} : AppendsConflict(c)
           /\ ~panicked']_vars

----------------------------------------------------------------------------
(* Kinds of the obsolete-propagation pass *)

\* the plain kind for a package: by its first stored version
PlainKind(package) ==
    IF package.versions[1].obsolete
    THEN "ObsoletedRequired" ELSE "PartlyObsoletedRequired"

ByRenamedKind(package) ==
    IF package.versions[1].obsolete
    THEN "ObsoletedRequiredByRenamed" ELSE "PartlyObsoletedRequiredByRenamed"

\* the dependent components of the package in one class
DependentsOf(package, class) ==
    CASE class = "Build" -> package.build_dependents
      [] class = "Test" -> package.test_dependents
      [] class = "SystemBuild" -> package.sys_build_dependents
      [] class = "SystemTest" -> package.sys_test_dependents
      [] OTHER -> <<>>

\* C19: every diagnostic of the obsolete-propagation pass has the kind
\* ObsoletedRequired when the first stored version of the required package
\* is obsolete and PartlyObsoletedRequired otherwise; a diagnostic for a
\* runtime dependent has the ByRenamed variant of that kind exactly when the
\* dependent package is renamed, and a diagnostic for a dependent component
\* has the plain variant, its class and the name of the component.
C19_KindByFirstVersion ==
    Checked =>
      \A n \in 1..Len(NewProblems) :
        NewProblems[n].kind \in ObsoletedFamily =>
          LET d == NewProblems[n]
              package == Entry(packages, d.d_type.f.name)
          IN /\ package.obsolete
             /\ package.versions # <<>>
             /\ d.d_type = Require(package.fmri)
             /\ IF d.dependency_type = "Runtime"
                THEN /\ Known(packages, d.fmri.name)
                     /\ d.kind = IF Entry(packages, d.fmri.name).renamed
                                 THEN ByRenamedKind(package)
                                 ELSE PlainKind(package)
                     /\ \E e \in RequiringEdges(package) :
                          package.runtime_dependents[e].f = d.fmri
                ELSE /\ d.kind = PlainKind(package)
                     /\ d.fmri = NoneFmri
                     /\ \E c \in Range(DependentsOf(package, d.dependency_type)) :
                          components[c].name = d.component

\* a package whose first version is live and whose obsolete flag is set has
\* been reported for a dependent component and for a renamed runtime dependent
C19_Witness ==
    /\ Checked
    /\ last.ok
    /\ \E n, m \in 1..Len(NewProblems) :
         /\ NewProblems[n].kind = "PartlyObsoletedRequiredByRenamed"
         /\ NewProblems[m].kind = "PartlyObsoletedRequired"
         /\ NewProblems[m].dependency_type # "Runtime"

----------------------------------------------------------------------------
(* Targets that resolve to no package *)

\* the accumulated reverse edges whose target FMRI resolves to no package
UnresolvedIncidences ==
    {inc \in DistinctIncidences(last.before) : ~Resolves(last.before, inc.target)}

\* the dependency shape a diagnostic carries for an edge of the target
RebuiltShape(inc) ==
    CASE inc.edge.kind = "RequireAny" -> RequireAny(<<inc.target>>)
      [] inc.edge.kind = "ConditionalFmri" -> Conditional(inc.target, NoneFmri)
      [] inc.edge.kind = "ConditionalPredicate" -> Conditional(NoneFmri, inc.target)
      [] OTHER -> [kind |-> inc.edge.kind, f |-> inc.target]

\* the diagnostic for an accumulated edge of an unresolved target
MissingDiagnostic(inc) ==
    IF Entry(last.before, inc.edge.f.name).renamed
    THEN [kind |-> "NonExistingRequiredByRenamed", d_type |-> RebuiltShape(inc),
          dependency_type |-> "Runtime", fmri |-> inc.edge.f]
    ELSE [kind |-> "NonExistingRequired", d_type |-> RebuiltShape(inc),
          dependency_type |-> "Runtime", fmri |-> inc.edge.f, component |-> ""]

\* C20: for every target FMRI that resolves to no package, each accumulated
\* reverse edge becomes exactly one diagnostic and no edge is stored:
\* NonExistingRequiredByRenamed when the source package of the edge is
\* renamed, NonExistingRequired otherwise, tagged Runtime and carrying the
\* source FMRI and the dependency shape rebuilt from the edge.
C20_UnresolvedBecomesDiagnostic ==
    Distributed =>
      /\ ~panicked
      /\ \A inc \in UnresolvedIncidences :
           Count(MissingDiagnostic(inc), NewProblems) = 1
      /\ Len(NewProblems) = Cardinality(UnresolvedIncidences)
      /\ \A i \in 1..Len(packages) :
           \A edge \in Range(NewEdges(i)) :
             \E inc \in DistinctIncidences(last.before) :
               /\ inc.edge = edge
               /\ inc.target.name = packages[i].fmri.name

\* a renamed package with two dependencies on a name the registry does not
\* hold has been distributed
C20_Witness ==
    /\ Distributed
    /\ ~panicked
    /\ Cardinality(UnresolvedIncidences) > 1
    /\ \E inc \in UnresolvedIncidences : Entry(last.before, inc.edge.f.name).renamed
    /\ \E n \in 1..Len(NewProblems) : NewProblems[n].kind = "NonExistingRequiredByRenamed"

----------------------------------------------------------------------------
(* Component-level edges *)

RepoClasses == DependencyTypes \ {"Runtime"}

\* the dependency collection of the component in one class
DependenciesOf(component, class) ==
    CASE class = "Build" -> component.build
      [] class = "Test" -> component.test
      [] class = "SystemBuild" -> component.sys_build
      [] class = "SystemTest" -> component.sys_test
      [] OTHER -> <<>>

\* P is among the dependencies of C in a class exactly when C is among the
\* dependents of P in that class, as often on one side as on the other
EdgesBothWays ==
    \A c \in 1..Len(components) :
      \A i \in 1..Len(packages) :
        \A class \in RepoClasses :
          Count(i, DependenciesOf(components[c], class)) =
            Count(c, DependentsOf(packages[i], class))

AttachedRepoDependencies == last.op = "add_repo_dependencies"

\* the positions of the list of the last call whose target resolves to no package
UnresolvedTargets(upto) ==
    {n \in 1..upto : ~Resolves(last.before, last.dependencies[n])}

\* the diagnostic for the unresolved target at a position of the list
MissingTarget(n) ==
    [kind |-> "NonExistingRequired", d_type |-> Require(last.dependencies[n]),
     dependency_type |-> last.dependency_type, fmri |-> NoneFmri,
     component |-> last.name]

\* the last call appended one diagnostic for each unresolved target among
\* the first upto positions of its list
ReportsUnresolved(upto) ==
    \A n \in UnresolvedTargets(upto) :
      Count(MissingTarget(n), NewProblems) =
        Cardinality({m \in UnresolvedTargets(upto) :
                       last.dependencies[m] = last.dependencies[n]})

NewDependencyEdges == DependencyEdges(components) - DependencyEdges(last.components)

\* C21 (as claimed): the component-level edges are the same in both
\* directions for each of Build, Test, SystemBuild and SystemTest, and every
\* target of an add_repo_dependencies call that resolves to no package adds
\* no edge and appends one NonExistingRequired diagnostic with the class and
\* the component name.
C21_EveryUnresolvedReported ==
    /\ EdgesBothWays
    /\ AttachedRepoDependencies =>
         /\ ReportsUnresolved(Len(last.dependencies))
         /\ NewDependencyEdges <=
              Len(last.dependencies)
              - Cardinality(UnresolvedTargets(Len(last.dependencies)))

\* the positions the last call went through: the whole list when it returned
\* Ok, the positions before the first target that resolves when it returned Err
Processed ==
    IF last.ok THEN Len(last.dependencies)
    ELSE (CHOOSE n \in 1..Len(last.dependencies) :
            /\ Resolves(last.before, last.dependencies[n])
            /\ \A m \in 1..(n - 1) : ~Resolves(last.before, last.dependencies[m])) - 1

\* C21 (amended): the component-level edges are the same in both directions
\* for each of Build, Test, SystemBuild and SystemTest. A call that returns
\* Ok appends exactly one NonExistingRequired diagnostic, with the class and
\* the component name, for each target that resolves to no package and adds
\* one edge for each other target; a call that returns Err (unknown
\* component, or the class Runtime) does so only for the unresolved targets
\* that precede the first target that resolves, and adds no edge.
C21_ProcessedUnresolvedReported ==
    /\ EdgesBothWays
    /\ AttachedRepoDependencies =>
         /\ ReportsUnresolved(Processed)
         /\ Len(NewProblems) = Cardinality(UnresolvedTargets(Processed))
         /\ NewDependencyEdges =
              IF last.ok
              THEN Len(last.dependencies)
                   - Cardinality(UnresolvedTargets(Len(last.dependencies)))
              ELSE 0

\* on a graph that holds an edge, a call has returned Err at a target that
\* resolves and has left an unresolved target behind it
C21_Witness ==
    /\ AttachedRepoDependencies
    /\ ~last.ok
    /\ DependencyEdges(components) > 0
    /\ UnresolvedTargets(Len(last.dependencies)) # {}
    /\ UnresolvedTargets(Processed) = {}
    /\ \E i \in 1..Len(packages) : packages[i].sys_test_dependents # <<>>

----------------------------------------------------------------------------
(* The frame of check_problems *)

\* C22: a step of check_problems leaves the packages and the components as
\* they are (versions, flags, component links, dependents, members and
\* dependency edges), and the sink after the step is the sink before it with
\* diagnostics appended.
C22_CheckLeavesGraph ==
    [][last'.op = "check_problems" =>
         /\ packages' = packages
         /\ components' = components
         /\ Len(problems') >= Len(problems)
         /\ SubSeq(problems', 1, Len(problems)) = problems]_vars

\* a graph with members, a dependency edge and a reverse runtime edge has
\* been checked, with a sink that held a diagnostic before and gained one
C22_Witness ==
    /\ Checked
    /\ last.sink # <<>>
    /\ NewProblems # <<>>
    /\ DependencyEdges(components) > 0
    /\ \E c \in 1..Len(components) : components[c].packages # <<>>
    /\ \E i \in 1..Len(packages) : packages[i].runtime_dependents # <<>>

====
